---- MODULE Spec2Model ----
(***************************************************************************)
(* Model of the Talking Clock sketch (src/TalkingClock/TalkingClock.ino).  *)
(*                                                                         *)
(* The main flow (setup(), loop(), playfile()) is one sequential process   *)
(* whose position is pc/site; it is cut at every point where the           *)
(* environment can interleave: before a file is opened, at every iteration *)
(* of the playback loop, at every return of playfile() and at every poll   *)
(* of loop().  The environment is the button, the millisecond timer, the   *)
(* real-time clock, the SD card (outcome of opening a clip), the audio     *)
(* interrupt of WaveHC (end of a clip, sample under the play position) and *)
(* the Timer2 overflow interrupt that blinks the eyes.                     *)
(*                                                                         *)
(* The specifications below are built from the same actions; they differ  *)
(* in the sets the environment's inputs are drawn from (clock times,       *)
(* outcomes of opening a clip, samples, values of random(), elapsed time). *)
(***************************************************************************)
EXTENDS Integers, Sequences, FiniteSets, TLC

VARIABLES
  pc,            \* position of the main flow
  site,          \* which call of playfile() is in progress (its place in setup/loop)
  name,          \* playfile(): argument 'name'
  t,             \* loop(): DateTime t, the snapshot of the clock
  h, hi, lo, pm, \* loop(): uint8_t locals
  debounceTime,  \* loop(): static unsigned long debounceTime
  now,           \* millis(), 32 bits
  button,        \* TRUE when the trigger pin reads LOW (pressed)
  rtc,           \* the time the real-time clock holds
  isplaying,     \* wave.isplaying
  s, sLo, sHi,   \* playfile(): int8_t s, lo, hi
  counter,       \* playfile(): int8_t counter
  mouthOut,      \* LEDMOUTH is driven (analogWrite) / is an input (off)
  mouthDuty,     \* last duty written to LEDMOUTH
  eyes,          \* level of pin LEDEYES
  toie2,         \* TIMSK2.TOIE2: Timer2 overflow interrupt enabled
  blinkCounter,  \* ISR: static uint8_t counter
  blinking,      \* ISR: static uint8_t blinking
  serial,        \* last message printed on Serial
  requested,     \* history: the names passed to playfile() since the activation began
  played,        \* history: samples observed by the playback loop in this playback
  writes,        \* history: analogWrite() calls on LEDMOUTH in this playback
  window,        \* history: the samples observed since the latest analogWrite()
  nfail,         \* history: playfile() calls of this activation that failed
  outcome,       \* history: how the latest playfile() call went at file.open/wave.create
  pressFired,    \* history: an activation began and no poll has read 'released' since
  pressInPlay,   \* history: the latest press began while an activation was in progress
  sinceRel       \* history: ms since the latest poll that read 'released', -1 if none

vars == << pc, site, name, t, h, hi, lo, pm, debounceTime, now, button, rtc,
           isplaying, s, sLo, sHi, counter, mouthOut, mouthDuty, eyes, toie2,
           blinkCounter, blinking, serial, requested, played, writes, window, nfail, outcome,
           pressFired, pressInPlay, sinceRel >>

mainVars == << pc, site, name, t, h, hi, lo, pm, debounceTime,
               isplaying, s, sLo, sHi, counter, mouthOut, mouthDuty, serial,
               requested, played, writes, window, nfail, outcome, pressFired >>

blinkVars == << eyes, blinkCounter, blinking >>

-----------------------------------------------------------------------------
(* Bounds of the model *)

\* longest clip, in iterations of the playback loop, of the orchestration models
MaxLen == 2
\* longest clip where the playback itself is not what is examined
ShortLen == 1
\* milliseconds the models let pass
MaxNow == 32

\* iterations of the playback loop where the mouth is examined (two updates
\* of the mouth after the one of the first iteration)
MouthLen == 513
\* iterations of the playback loop where the gaps between clips are examined
GapLen == 257

\* milliseconds before millis() comes round at which the long idle time ends
WrapLead == 32

\* the history sinceRel counts up to SinceCap milliseconds
SinceCap == 16

-----------------------------------------------------------------------------
(* Constants of the program *)

\* an unsigned long is held as two 16-bit halves << high, low >>
Two16 == 65536
Two15 == 32768
DebounceMs == 15
\* iterations between two updates of the mouth: int8_t counter comes round
WindowLen == 256

\* the filename tables; TLA+ sequences start at 1, the C arrays at 0
hours  == << "h12", "h01", "h02", "h03", "h04", "h05",
             "h06", "h07", "h08", "h09", "h10", "h11" >>
mTens  == << "m00", "m10", "m20", "m30", "m40", "m50" >>
mTeens == << "m11", "m12", "m13", "m14", "m15", "m16", "m17", "m18", "m19" >>
mTenX  == << "m0x", "NULL", "m2x", "m3x", "m4x", "m5x" >>
mins   == << "m1", "m2", "m3", "m4", "m5", "m6", "m7", "m8", "m9" >>
ampm   == << "am", "pm" >>

\* pgm_read_word(&table[i]); an index outside the table reads whatever follows
\* it in flash, modelled as the name "GARBAGE"
ReadTable(table, i) ==
  IF i + 1 \in DOMAIN table THEN table[i + 1] ELSE "GARBAGE"

\* the 8.3 name playfile() builds in its static buffer: the partial name
\* followed by the fixed extension
FullName(n) == n \o ".WAV"

\* a + d modulo 2^32, for 0 <= d < 2^16
Add32(a, d) ==
  LET low == a[2] + d
  IN  << (a[1] + (low \div Two16)) % Two16, low % Two16 >>

\* a - b modulo 2^32
Sub32(a, b) ==
  LET borrow == IF a[2] < b[2] THEN 1 ELSE 0
  IN  << (a[1] - b[1] - borrow) % Two16, (a[2] - b[2]) % Two16 >>

\* a >= b as unsigned long
SignedGE_Unsigned(a, b) == a[1] > b[1] \/ (a[1] = b[1] /\ a[2] >= b[2])

\* (long)(a - b) >= 0: the sign bit of the 32-bit difference is clear
SignedGE(a, b) == Sub32(a, b)[1] < Two15

\* a counter wider than int8_t, which does not come round in a playback
ToInt8_NoWrap(x) == x

\* conversion of an int to int8_t (avr-gcc wraps modulo 256)
ToInt8(x) == ((x + 128) % 256) - 128

AllTimes == [hour : 0..23, minute : 0..59]

ActivationSites == {"annc", "hour", "tens", "teens", "tenx", "ones", "ampm"}

\* an activation is in progress: the main flow is inside loop()'s announcement
InActivation == pc \in {"call", "playing", "ret"} /\ site \in ActivationSites

-----------------------------------------------------------------------------
(* Initial state: the static initialisers, at the entry of setup() *)

InitWith(times) ==
  /\ pc = "setup" /\ site = "none" /\ name = "none"
  /\ t = [hour |-> 0, minute |-> 0]
  /\ h = 0 /\ hi = 0 /\ lo = 0 /\ pm = 0
  /\ debounceTime = << 0, 0 >>
  /\ now = << 0, 0 >>
  /\ button \in BOOLEAN
  /\ rtc \in times
  /\ isplaying = FALSE
  /\ s = 0 /\ sLo = 0 /\ sHi = 0 /\ counter = 0
  /\ mouthOut = FALSE /\ mouthDuty = 0
  /\ eyes = FALSE
  /\ toie2 = FALSE
  /\ blinkCounter = 1 /\ blinking = 1
  /\ serial = << >>
  /\ requested = << >>
  /\ played = 0 /\ writes = 0 /\ window = {}
  /\ nfail = 0
  /\ outcome = "none"
  /\ pressFired = FALSE
  /\ pressInPlay = FALSE
  /\ sinceRel = -1

-----------------------------------------------------------------------------
(* setup() *)

StorageOutcomes == {"ok", "Card init failed", "No partition", "Couldn't open dir"}

\* error() prints and returns, and setup() goes on
Setup_ContinueOnError(r) ==
  /\ pc = "setup"
  /\ eyes' = TRUE
  /\ toie2' = TRUE
  /\ pc' = "call" /\ site' = "boot" /\ name' = "boot"
  /\ serial' = (IF r = "ok" THEN serial ELSE << r >>)
  /\ UNCHANGED << t, h, hi, lo, pm, debounceTime, now, button, rtc, isplaying,
                  s, sLo, sHi, counter, mouthOut, mouthDuty, blinkCounter,
                  blinking, requested, played, writes, window, nfail, outcome,
                  pressFired, pressInPlay, sinceRel >>

\* lines 75-119: bring-up; a storage failure goes to error(), which prints and
\* halts; otherwise the Timer2 overflow interrupt is enabled and boot is played
Setup(r) ==
  /\ pc = "setup"
  /\ eyes' = TRUE
  /\ IF r = "ok"
       THEN /\ toie2' = TRUE
            /\ pc' = "call" /\ site' = "boot" /\ name' = "boot"
            /\ UNCHANGED serial
       ELSE /\ serial' = << r >>
            /\ pc' = "halted"
            /\ UNCHANGED << toie2, site, name >>
  /\ UNCHANGED << t, h, hi, lo, pm, debounceTime, now, button, rtc, isplaying,
                  s, sLo, sHi, counter, mouthOut, mouthDuty, blinkCounter,
                  blinking, requested, played, writes, window, nfail, outcome, pressFired,
                  pressInPlay, sinceRel >>

\* lines 119-121: playfile(boot) has returned; the mouth is switched off and
\* setup() returns, so loop() runs next
SetupEnd ==
  /\ pc = "ret" /\ site = "boot"
  /\ mouthOut' = FALSE /\ mouthDuty' = 0
  /\ pc' = "poll" /\ site' = "none" /\ name' = "none"
  /\ requested' = << >> /\ nfail' = 0
  /\ UNCHANGED << t, h, hi, lo, pm, debounceTime, now, button, rtc, isplaying,
                  s, sLo, sHi, counter, eyes, toie2, blinkCounter, blinking,
                  serial, played, writes, window, outcome, pressFired, pressInPlay, sinceRel >>

-----------------------------------------------------------------------------
(* playfile() *)

OpenOutcomes == {"ok", "nofile", "notwav"}

\* lines 171-183: the file opened and the header read; wave.play() starts the
\* playback and the locals of the loop are initialised
OpenOk ==
  /\ isplaying' = TRUE
  /\ s' = 0 /\ sLo' = 0 /\ sHi' = 0 /\ counter' = -1
  /\ pc' = "playing"
  /\ UNCHANGED << serial, nfail >>

\* lines 195-202: the failure is printed and control goes to where
OpenFail(r, where) ==
  /\ serial' = (IF r = "notwav"
                  THEN << FullName(name), ": Not a valid WAV" >>
                  ELSE << "Couldn't open file: ", FullName(name) >>)
  /\ nfail' = nfail + 1
  /\ pc' = where
  /\ UNCHANGED << isplaying, s, sLo, sHi, counter >>

\* what a playfile() call leaves alone before its playback loop
OpenFrame ==
  UNCHANGED << site, name, t, h, hi, lo, pm, debounceTime, now, button, rtc,
               mouthOut, mouthDuty, eyes, toie2, blinkCounter, blinking,
               pressFired, pressInPlay, sinceRel >>

\* a failed clip ends the announcement: loop() returns at once
PlayfileOpen_AbortOnFail(r) ==
  /\ pc = "call"
  /\ requested' = Append(requested, name)
  /\ played' = 0 /\ writes' = 0 /\ window' = {}
  /\ outcome' = r
  /\ IF r = "ok" THEN OpenOk ELSE OpenFail(r, "poll")
  /\ OpenFrame

\* the Timer2 interrupt is masked while a clip plays
PlayfileOpen_MaskTimer(r) ==
  /\ pc = "call"
  /\ requested' = Append(requested, name)
  /\ played' = 0 /\ writes' = 0 /\ window' = {}
  /\ outcome' = r
  /\ IF r = "ok" THEN OpenOk ELSE OpenFail(r, "ret")
  /\ toie2' = (r # "ok")
  /\ UNCHANGED << site, name, t, h, hi, lo, pm, debounceTime, now, button, rtc,
                  mouthOut, mouthDuty, eyes, blinkCounter, blinking,
                  pressFired, pressInPlay, sinceRel >>

\* lines 164-183 and 195-202: build the name, open the file, read the header;
\* on success start the playback, on failure print the message and return
PlayfileOpen(r) ==
  /\ pc = "call"
  /\ requested' = Append(requested, name)
  /\ played' = 0 /\ writes' = 0 /\ window' = {}
  /\ outcome' = r
  /\ IF r = "ok" THEN OpenOk ELSE OpenFail(r, "ret")
  /\ OpenFrame

\* the brightness without the limit of 255
Brightness_NoClamp(low, high) == (high - low) * 4

\* lines 186-187: int b = (hi - lo) * 4; if(b > 255) b = 255
Brightness(low, high) ==
  LET b == (high - low) * 4
  IN  IF b > 255 THEN 255 ELSE b

\* lines 183-194: one iteration of the playback loop on the sample x that is
\* under the play position; maxLen caps the iterations of one playback
PlayfileLoop(x, maxLen) ==
  /\ pc = "playing" /\ isplaying
  /\ played < maxLen
  /\ played' = played + 1
  /\ s' = x
  /\ counter' = ToInt8(counter + 1)
  /\ IF counter' = 0
       THEN /\ mouthOut' = TRUE
            /\ mouthDuty' = Brightness(sLo, sHi) % 256
            /\ sLo' = x /\ sHi' = x
            /\ writes' = writes + 1 /\ window' = {x}
       ELSE /\ sLo' = (IF x < sLo THEN x ELSE sLo)
            /\ sHi' = (IF x < sLo THEN sHi ELSE IF x > sHi THEN x ELSE sHi)
            /\ window' = window \cup {x}
            /\ UNCHANGED << mouthOut, mouthDuty, writes >>
  /\ UNCHANGED << pc, site, name, t, h, hi, lo, pm, debounceTime, now, button,
                  rtc, isplaying, eyes, toie2, blinkCounter, blinking, serial,
                  requested, nfail, outcome, pressFired, pressInPlay, sinceRel >>

\* WaveHC's audio interrupt reaches the end of the clip: wave.isplaying = 0
AudioEnd ==
  /\ isplaying
  /\ isplaying' = FALSE
  /\ UNCHANGED << pc, site, name, t, h, hi, lo, pm, debounceTime, now, button,
                  rtc, s, sLo, sHi, counter, mouthOut, mouthDuty, eyes, toie2,
                  blinkCounter, blinking, serial, requested, played, writes, window, nfail,
                  outcome, pressFired, pressInPlay, sinceRel >>

\* playfile() leaves its loop at the given condition and control goes to
\* where; the locals go out of scope
ExitWhen(cond, where) ==
  /\ pc = "playing" /\ cond
  /\ pc' = where
  /\ s' = 0 /\ sLo' = 0 /\ sHi' = 0 /\ counter' = 0
  /\ UNCHANGED << site, name, t, h, hi, lo, pm, debounceTime, now, button, rtc,
                  isplaying, mouthOut, mouthDuty, eyes, toie2, blinkCounter,
                  blinking, serial, requested, played, writes, window, nfail, outcome,
                  pressFired, pressInPlay, sinceRel >>

\* playfile() starts the clip and returns without waiting for its end
PlayfileExit_NoWait == ExitWhen(TRUE, "ret")

\* a pressed button cancels the announcement from inside the playback loop
PlayfileExit_CancelOnButton ==
  ExitWhen(~isplaying \/ button, IF button THEN "poll" ELSE "ret")

\* line 183: the loop test reads wave.isplaying == 0 and playfile() returns
PlayfileExit == ExitWhen(~isplaying, "ret")

-----------------------------------------------------------------------------
(* loop() *)

\* the remapping with the comparison off by one
Hour12_OffByOne(hour) == IF hour > 12 THEN hour - 12 ELSE hour

\* lines 138-141: the hour remapped to 0-11
Hour12(hour) == IF hour >= 12 THEN hour - 12 ELSE hour

\* noon counted as a morning hour
IsPm_Late(hour) == IF hour > 12 THEN 1 ELSE 0

\* lines 136-139: pm is 1 for the hours 12-23
IsPm(hour) == IF hour >= 12 THEN 1 ELSE 0

\* the branches without the test for the teens
MinuteBranch_NoTeens(mhi, mlo) == IF mlo = 0 THEN "tens" ELSE "tenx"

\* the branches with the teens tested before the multiples of ten
MinuteBranch_TeensFirst(mhi, mlo) ==
  IF mhi = 1 THEN "teens" ELSE IF mlo = 0 THEN "tens" ELSE "tenx"

\* lines 145-149: which minute branch loop() takes after the hour
MinuteBranch(mhi, mlo) ==
  IF mlo = 0 THEN "tens" ELSE IF mhi = 1 THEN "teens" ELSE "tenx"

\* line 146, 148, 150, 151: the table entries the minute branches read
TensName(mhi)  == ReadTable(mTens, mhi)
TeenName_NoOffset(mlo) == ReadTable(mTeens, mlo)
TeenName(mlo)  == ReadTable(mTeens, mlo - 1)
TenXName(mhi)  == ReadTable(mTenX, mhi)
OnesName_NoOffset(mlo) == ReadTable(mins, mlo)
OnesName(mlo)  == ReadTable(mins, mlo - 1)

\* lines 128-143 and 156-158: one pass of loop() up to the first playfile()
\* call, or a whole pass when no announcement starts
Poll ==
  /\ pc = "poll"
  /\ IF button
       THEN IF SignedGE(now, debounceTime)
              THEN /\ t' = rtc
                   /\ h' = Hour12(rtc.hour)
                   /\ pm' = IsPm(rtc.hour)
                   /\ hi' = rtc.minute \div 10
                   /\ lo' = rtc.minute % 10
                   /\ pc' = "call" /\ site' = "annc" /\ name' = "annc"
                   /\ requested' = << >> /\ nfail' = 0
                   /\ pressFired' = TRUE
                   /\ UNCHANGED << debounceTime, sinceRel >>
              ELSE UNCHANGED << t, h, pm, hi, lo, pc, site, name, requested,
                                nfail, pressFired, debounceTime, sinceRel >>
       ELSE /\ debounceTime' = Add32(now, DebounceMs)
            /\ pressFired' = FALSE
            /\ sinceRel' = 0
            /\ UNCHANGED << t, h, pm, hi, lo, pc, site, name, requested, nfail >>
  /\ UNCHANGED << now, button, rtc, isplaying, s, sLo, sHi, counter, mouthOut,
                  mouthDuty, eyes, toie2, blinkCounter, blinking, serial,
                  played, writes, window, outcome, pressInPlay >>

\* the next playfile() call of loop(): site and name change, nothing else
NextCall(st, nm) ==
  /\ pc' = "call" /\ site' = st /\ name' = nm
  /\ UNCHANGED << t, h, hi, lo, pm, debounceTime, now, button, rtc, isplaying,
                  s, sLo, sHi, counter, mouthOut, mouthDuty, eyes, toie2,
                  blinkCounter, blinking, serial, requested, played, writes, window, nfail,
                  outcome, pressFired, pressInPlay, sinceRel >>

\* line 144: playfile(annc) has returned; say the hour
SayHour ==
  /\ pc = "ret" /\ site = "annc"
  /\ NextCall("hour", ReadTable(hours, h))

\* the minute is taken from the clock again when the hour has been said
SayMinute_Reread ==
  /\ pc = "ret" /\ site = "hour"
  /\ LET mhi == rtc.minute \div 10
         mlo == rtc.minute % 10
         br  == MinuteBranch(mhi, mlo)
     IN  NextCall(br, CASE br = "tens"  -> TensName(mhi)
                        [] br = "teens" -> TeenName(mlo)
                        [] OTHER        -> TenXName(mhi))

\* lines 145-150: playfile(hours[h]) has returned; say the minute
SayMinute ==
  /\ pc = "ret" /\ site = "hour"
  /\ LET br == MinuteBranch(hi, lo)
     IN  NextCall(br, CASE br = "tens"  -> TensName(hi)
                        [] br = "teens" -> TeenName(lo)
                        [] OTHER        -> TenXName(hi))

\* line 151: playfile(mTenX[hi]) has returned; say the ones digit
SayOnes ==
  /\ pc = "ret" /\ site = "tenx"
  /\ NextCall("ones", OnesName(lo))

\* line 153: the minute clips have returned; say am or pm
SayAmPm ==
  /\ pc = "ret" /\ site \in {"tens", "teens", "ones"}
  /\ NextCall("ampm", ReadTable(ampm, pm))

\* lines 154-159: playfile(ampm[pm]) has returned; the mouth is switched off
\* and loop() returns, to be called again
LoopEnd ==
  /\ pc = "ret" /\ site = "ampm"
  /\ mouthOut' = FALSE /\ mouthDuty' = 0
  /\ pc' = "poll" /\ site' = "none" /\ name' = "none"
  /\ UNCHANGED << t, h, hi, lo, pm, debounceTime, now, button, rtc, isplaying,
                  s, sLo, sHi, counter, eyes, toie2, blinkCounter, blinking,
                  serial, requested, played, writes, window, nfail, outcome, pressFired,
                  pressInPlay, sinceRel >>

-----------------------------------------------------------------------------
(* The Timer2 overflow interrupt *)

\* the interrupt writing the mouth pin in place of the eye pin
Tick_MouthPin(r) ==
  /\ toie2
  /\ LET c == (blinkCounter - 1) % 256
     IN  IF c = 0
           THEN /\ blinking' = (blinking + 1) % 256
                /\ mouthOut' = TRUE
                /\ IF blinking' % 2 = 1
                     THEN /\ r \in 0..10
                          /\ mouthDuty' = 0
                          /\ blinkCounter' = 5 + r
                     ELSE /\ r \in 0..119
                          /\ mouthDuty' = 255
                          /\ blinkCounter' = 8 + r
           ELSE /\ r = 0
                /\ blinkCounter' = c
                /\ UNCHANGED << blinking, mouthOut, mouthDuty >>
  /\ UNCHANGED << pc, site, name, t, h, hi, lo, pm, debounceTime, now, button,
                  rtc, isplaying, s, sLo, sHi, counter, eyes, toie2, serial,
                  requested, played, writes, window, nfail, outcome,
                  pressFired, pressInPlay, sinceRel >>

\* the interrupt with the blink drawn from random(12)
Tick_LongBlink(r) ==
  /\ toie2
  /\ LET c == (blinkCounter - 1) % 256
     IN  IF c = 0
           THEN /\ blinking' = (blinking + 1) % 256
                /\ IF blinking' % 2 = 1
                     THEN /\ r \in 0..11
                          /\ eyes' = FALSE
                          /\ blinkCounter' = 5 + r
                     ELSE /\ r \in 0..119
                          /\ eyes' = TRUE
                          /\ blinkCounter' = 8 + r
           ELSE /\ r = 0
                /\ blinkCounter' = c
                /\ UNCHANGED << blinking, eyes >>
  /\ UNCHANGED << pc, site, name, t, h, hi, lo, pm, debounceTime, now, button,
                  rtc, isplaying, s, sLo, sHi, counter, mouthOut, mouthDuty,
                  toie2, serial, requested, played, writes, window, nfail, outcome, pressFired,
                  pressInPlay, sinceRel >>

\* lines 206-217; r is the value random() returns when it is called
Tick(r) ==
  /\ toie2
  /\ LET c == (blinkCounter - 1) % 256
     IN  IF c = 0
           THEN /\ blinking' = (blinking + 1) % 256
                /\ IF blinking' % 2 = 1
                     THEN /\ r \in 0..10
                          /\ eyes' = FALSE
                          /\ blinkCounter' = 5 + r
                     ELSE /\ r \in 0..119
                          /\ eyes' = TRUE
                          /\ blinkCounter' = 8 + r
           ELSE /\ r = 0
                /\ blinkCounter' = c
                /\ UNCHANGED << blinking, eyes >>
  /\ UNCHANGED << pc, site, name, t, h, hi, lo, pm, debounceTime, now, button,
                  rtc, isplaying, s, sLo, sHi, counter, mouthOut, mouthDuty,
                  toie2, serial, requested, played, writes, window, nfail, outcome, pressFired,
                  pressInPlay, sinceRel >>

-----------------------------------------------------------------------------
(* The environment *)

\* the button goes down
Press ==
  /\ ~button
  /\ button' = TRUE
  /\ pressInPlay' = InActivation
  /\ UNCHANGED << mainVars, blinkVars, now, rtc, toie2, sinceRel >>

\* the button goes up
Release ==
  /\ button
  /\ button' = FALSE
  /\ UNCHANGED << mainVars, blinkVars, now, rtc, toie2, pressInPlay, sinceRel >>

\* the history sinceRel after d more milliseconds; it stops counting at
\* SinceCap, which stands for 'SinceCap ms or more'
Since(e, d) == IF e < 0 THEN e ELSE IF e + d > SinceCap THEN SinceCap ELSE e + d

\* d milliseconds pass (Timer0); cap bounds the time the model lets pass
\* from reset and again from the point where millis() has come round to 0
Elapse(d, cap) ==
  /\ \/ now[1] = 0 /\ now[2] + d <= cap
     \/ now[1] = Two16 - 1
  /\ now' = Add32(now, d)
  /\ sinceRel' = Since(sinceRel, d)
  /\ UNCHANGED << mainVars, blinkVars, button, rtc, toie2, pressInPlay >>

\* the clock is left alone from reset until millis() is WrapLead ms short of
\* coming round to 0
LongIdle ==
  /\ now = << 0, 0 >>
  /\ now' = Sub32(<< 0, 0 >>, << 0, WrapLead >>)
  /\ sinceRel' = (IF sinceRel < 0 THEN sinceRel ELSE SinceCap)
  /\ UNCHANGED << mainVars, blinkVars, button, rtc, toie2, pressInPlay >>

\* the real-time clock moves on to another time
ClockAdvance(times) ==
  /\ \E x \in times : x # rtc /\ rtc' = x
  /\ UNCHANGED << mainVars, blinkVars, button, now, toie2, pressInPlay, sinceRel >>

-----------------------------------------------------------------------------
(* Specifications *)

\* the steps of the processor in setup(), loop() and playfile(), with the
\* card's outcomes, the samples and the clip length given
Program(outcomes, samples, maxLen) ==
  \/ \E r \in StorageOutcomes : Setup(r)
  \/ SetupEnd
  \/ \E r \in outcomes : PlayfileOpen(r)
  \/ \E x \in samples : PlayfileLoop(x, maxLen)
  \/ PlayfileExit
  \/ Poll
  \/ SayHour
  \/ SayMinute
  \/ SayOnes
  \/ SayAmPm
  \/ LoopEnd

\* the program, the audio interrupt and the button
MainFlow(outcomes, samples, maxLen) ==
  \/ Program(outcomes, samples, maxLen)
  \/ AudioEnd
  \/ Press
  \/ Release

\* Orchestration: a few clock times, every outcome of opening a clip
ClockTimes == { [hour |-> 0, minute |-> 0], [hour |-> 13, minute |-> 5],
                [hour |-> 12, minute |-> 17] }

Init == InitWith(ClockTimes)

OneTime == { [hour |-> 13, minute |-> 5] }

Next ==
  \/ MainFlow(OpenOutcomes, {0}, MaxLen)
  \/ ClockAdvance(ClockTimes)
  \/ Elapse(DebounceMs, MaxNow)

Spec == Init /\ [][Next]_vars

\* The same, with the scheduling the hardware gives: the processor always
\* executes its next step, and every clip is finite (the audio interrupt
\* reaches the end of the file)
NextFair == MainFlow(OpenOutcomes, {0}, MaxLen)

FairSpec ==
  /\ Init /\ [][NextFair]_vars
  /\ WF_vars(Program(OpenOutcomes, {0}, MaxLen))
  /\ WF_vars(AudioEnd)

\* Translation: every time of day, the clock standing still
InitTranslate == InitWith(AllTimes)

NextTranslate == MainFlow({"ok"}, {0}, ShortLen)

SpecTranslate == InitTranslate /\ [][NextTranslate]_vars

\* Blinking: the Timer2 interrupt with every value random() can return,
\* beside setup(), the boot clip and the idle loop (the button is not touched)
InitBlink == InitWith(OneTime) /\ button = FALSE

NextBlink ==
  \/ \E r \in StorageOutcomes : Setup(r)
  \/ SetupEnd
  \/ PlayfileOpen("ok")
  \/ PlayfileLoop(0, ShortLen)
  \/ AudioEnd
  \/ PlayfileExit
  \/ Poll
  \/ \E r \in 0..119 : Tick(r)

SpecBlink == InitBlink /\ [][NextBlink]_vars

\* Blinking beside the announcements: the button is held or not from power-on,
\* random() returns 0 or 1, and the timer's ticks are fair
InitFairBlink == InitWith(OneTime)

TickBlink == \E r \in {0, 1} : Tick(r)

NextFairBlink ==
  \/ Program({"ok"}, {0}, ShortLen)
  \/ AudioEnd
  \/ TickBlink

FairBlink == InitFairBlink /\ [][NextFairBlink]_vars /\ WF_vars(TickBlink)

\* Debounce: one clock time, every clip present, time passes in steps of 1 ms
\* and 15 ms
InitButton == InitWith(OneTime)

NextButton ==
  \/ MainFlow({"ok"}, {0}, ShortLen)
  \/ \E d \in {1, DebounceMs} : Elapse(d, MaxNow)

SpecButton == InitButton /\ [][NextButton]_vars

\* Wrap of millis(): as for the debounce, with an idle time that takes
\* millis() close to 2^32, from where it comes round to 0
InitWrap == InitWith(OneTime)

NextWrap ==
  \/ MainFlow({"ok"}, {0}, ShortLen)
  \/ \E d \in {1, DebounceMs} : Elapse(d, MaxNow)
  \/ LongIdle

SpecWrap == InitWrap /\ [][NextWrap]_vars

\* Mouth: the playback loop on a long boot clip with samples at both ends of
\* int8_t and 63 and 64 apart, beside setup() and the idle loop
MouthSamples == { -128, 0, 63, 127 }

InitMouth == InitWith(OneTime) /\ button = FALSE

NextMouth ==
  \/ \E r \in StorageOutcomes : Setup(r)
  \/ SetupEnd
  \/ PlayfileOpen("ok")
  \/ \E x \in MouthSamples : PlayfileLoop(x, MouthLen)
  \/ AudioEnd
  \/ PlayfileExit
  \/ Poll

SpecMouth == InitMouth /\ [][NextMouth]_vars

\* Gaps: a whole announcement of clips long enough for the mouth to be
\* updated from the samples, silent or loud, every clip present or missing;
\* the button is held from power-on
GapSamples == { 0, 127 }

InitGap == InitWith(OneTime) /\ button = TRUE

NextGap ==
  \/ Program(OpenOutcomes, GapSamples, GapLen)
  \/ AudioEnd

SpecGap == InitGap /\ [][NextGap]_vars

-----------------------------------------------------------------------------
(* Claims about the debounce and the start of an activation *)

\* a pass of loop() starts an announcement
ActivationStart == pc = "poll" /\ pc' = "call"

\* C1: one physical press starts exactly one activation: once an activation
\* has begun, no poll starts another one until a poll has read the button
\* released (which re-arms the 15 ms deadline).
C1_OneActivationPerPress == [][ActivationStart => ~pressFired]_vars

\* C2: a press that begins while the clips of an activation are being played
\* never starts an activation, whenever it is released.
C2_PressDuringPlaybackIgnored == [][ActivationStart => ~pressInPlay]_vars

-----------------------------------------------------------------------------
(* The phrase an announcement is to consist of, stated from the file naming *)
(* scheme of the recording script (hNN, m00..m50, m11..m19, mNx, mN, am/pm) *)

Digit(d) == << "0", "1", "2", "3", "4", "5", "6", "7", "8", "9" >>[d + 1]

HourClip(hour) ==
  LET h12 == IF hour % 12 = 0 THEN 12 ELSE hour % 12
  IN  "h" \o Digit(h12 \div 10) \o Digit(h12 % 10)

MinuteClips(minute) ==
  IF minute % 10 = 0
    THEN << "m" \o Digit(minute \div 10) \o "0" >>
    ELSE IF minute \in 11..19
      THEN << "m1" \o Digit(minute % 10) >>
      ELSE << "m" \o Digit(minute \div 10) \o "x", "m" \o Digit(minute % 10) >>

PeriodClip(hour) == IF hour < 12 THEN "am" ELSE "pm"

Phrase(time) ==
  << "annc", HourClip(time.hour) >> \o MinuteClips(time.minute)
    \o << PeriodClip(time.hour) >>

IsPrefix(a, b) == Len(a) <= Len(b) /\ SubSeq(b, 1, Len(a)) = a

\* an announcement has been made and the main flow is back in loop()'s poll
ActivationOver == pc = "poll" /\ requested # << >>

-----------------------------------------------------------------------------
(* Claims about the playback of the phrase sequence *)

\* C3: at most one clip is being played; within an activation the clips are
\* requested in the order annc, hour, minute clip(s), period; a clip is opened
\* only when the previous one has finished or failed (nothing is playing while
\* the main flow is outside the playback loop), and the main flow is back at
\* the poll, where alone an activation can begin, only after the whole phrase
\* has been requested and the last clip has ended.
C3_SingleOrderedPlayback ==
  /\ isplaying => pc = "playing" /\ outcome = "ok"
  /\ pc \in {"call", "ret", "poll"} => ~isplaying
  /\ InActivation =>
       /\ IsPrefix(requested, Phrase(t))
       /\ pc = "call" => /\ Len(requested) < Len(Phrase(t))
                         /\ name = Phrase(t)[Len(requested) + 1]
       /\ pc \in {"playing", "ret"} => /\ requested # << >>
                                       /\ name = requested[Len(requested)]
  /\ ActivationOver => requested = Phrase(t)

\* the last of five clips is sounding, after an earlier clip failed
C3_Witness ==
  /\ pc = "playing" /\ isplaying /\ site = "ampm" /\ played > 0
  /\ Len(requested) = 5 /\ nfail > 0

\* the report playfile() prints for a clip that failed with outcome r
Report(r, clip) ==
  IF r = "notwav" THEN << clip \o ".WAV", ": Not a valid WAV" >>
                  ELSE << "Couldn't open file: ", clip \o ".WAV" >>

\* C6: a clip that cannot be opened or is no valid WAV plays no sample and is
\* reported; the later clips of the phrase are still requested, in order, and
\* the activation ends with the whole phrase requested and the mouth LED off.
C6_FailedClipSkipped ==
  /\ (pc = "ret" /\ outcome \in {"nofile", "notwav"}) =>
       /\ played = 0 /\ ~isplaying
       /\ serial = Report(outcome, name)
  /\ (InActivation /\ nfail > 0) => IsPrefix(requested, Phrase(t))
  /\ nfail > 0 => pc # "halted"
  /\ (ActivationOver /\ nfail > 0) => requested = Phrase(t) /\ ~mouthOut

\* an activation is over in which the first and the third clip failed
C6_Witness ==
  /\ ActivationOver /\ nfail = 2 /\ Len(requested) = 5 /\ ~mouthOut
  /\ outcome = "ok" /\ serial = Report("notwav", "m0x")

\* C7: an activation that has begun runs to completion, whatever the button
\* does: with finite clips the main flow is eventually back at the poll with
\* every clip of the phrase requested and the mouth LED off.
C7_RunsToCompletion ==
  [](InActivation => <>(ActivationOver /\ requested = Phrase(t) /\ ~mouthOut))

\* an activation is under way with the button pressed again during playback
C7_Witness ==
  /\ InActivation /\ site = "tenx" /\ pc = "playing" /\ isplaying
  /\ button /\ pressInPlay

-----------------------------------------------------------------------------
(* Claims about the translation of the time into clips *)

\* the last clip of an activation has been requested
PhraseRequested ==
  \/ pc \in {"playing", "ret"} /\ site = "ampm"
  \/ ActivationOver

Range(q) == { q[i] : i \in DOMAIN q }

\* C8: for every hour and minute the clips requested are annc, hours[hour
\* mod 12], the minute clip(s), then am for hour < 12 and pm otherwise; the
\* four examples of the specification are as stated.
C8_PhraseForEveryTime ==
  PhraseRequested =>
    /\ t \in AllTimes
    /\ Len(requested) \in 4..5
    /\ requested[1] = "annc"
    /\ requested[2] = hours[(t.hour % 12) + 1]
    /\ (t.hour \in {0, 12} => requested[2] = "h12")
    /\ SubSeq(requested, 3, Len(requested) - 1) = MinuteClips(t.minute)
    /\ requested[Len(requested)] = (IF t.hour < 12 THEN "am" ELSE "pm")
    /\ (t = [hour |-> 0, minute |-> 0] =>
          requested = << "annc", "h12", "m00", "am" >>)
    /\ (t = [hour |-> 13, minute |-> 5] =>
          requested = << "annc", "h01", "m0x", "m5", "pm" >>)
    /\ (t = [hour |-> 23, minute |-> 45] =>
          requested = << "annc", "h11", "m4x", "m5", "pm" >>)
    /\ (t = [hour |-> 0, minute |-> 30] =>
          requested = << "annc", "h12", "m30", "am" >>)

\* the announcement of 23:45 is over
C8_Witness ==
  /\ ActivationOver /\ t = [hour |-> 23, minute |-> 45]
  /\ requested = << "annc", "h11", "m4x", "m5", "pm" >>

\* C9: a minute whose ones digit is 0 gives exactly one minute clip, the
\* exact-tens clip mTens[minute / 10], and no ones clip, for every hour.
C9_ExactTens ==
  (PhraseRequested /\ t.minute % 10 = 0) =>
    /\ Len(requested) = 4
    /\ requested[3] = mTens[(t.minute \div 10) + 1]
    /\ Range(requested) \cap Range(mins) = {}

\* the announcement of 12:10 is over
C9_Witness ==
  /\ ActivationOver /\ t = [hour |-> 12, minute |-> 10]
  /\ requested[3] = "m10"

\* C10: a minute in 11..19 gives exactly one minute clip, the teen clip
\* mTeens[minute - 11], for every hour.
C10_Teens ==
  (PhraseRequested /\ t.minute \in 11..19) =>
    /\ Len(requested) = 4
    /\ requested[3] = mTeens[(t.minute - 11) + 1]

\* the announcement of 7:19 is over
C10_Witness ==
  /\ ActivationOver /\ t = [hour |-> 7, minute |-> 19]
  /\ requested[3] = "m19"

\* the minutes announced with a tens clip and a ones clip
TwoClipMinutes == { m \in 1..59 : m % 10 # 0 /\ m \notin 11..19 }

\* C11: a minute in 1..59 that is no multiple of 10 and not in 11..19 gives
\* exactly two minute clips, mTenX[minute / 10] and then mins[(minute mod 10)
\* - 1]; that branch is never taken with the tens digit 1, so the NULL entry
\* mTenX[1] is never passed to playfile(), and every table index is inside
\* its table (no name is read from outside a table).
C11_TensAndOnes ==
  /\ (PhraseRequested /\ t.minute \in TwoClipMinutes) =>
       /\ Len(requested) = 5
       /\ requested[3] = mTenX[(t.minute \div 10) + 1]
       /\ requested[4] = mins[t.minute % 10]
       /\ requested[3] \in { "m0x", "m2x", "m3x", "m4x", "m5x" }
  /\ (site \in {"tenx", "ones"} => hi \in {0, 2, 3, 4, 5} /\ lo \in 1..9)
  /\ name \notin {"NULL", "GARBAGE"}
  /\ Range(requested) \cap {"NULL", "GARBAGE"} = {}

\* the announcement of 7:09 (tens digit 0, last entry of mins) is over
C11_Witness ==
  /\ ActivationOver /\ t = [hour |-> 7, minute |-> 9]
  /\ requested[3] = "m0x" /\ requested[4] = "m9"

\* the place of a clip in a table, counted from 0 as the code indexes it
IndexOf(table, clip) == (CHOOSE i \in DOMAIN table : table[i] = clip) - 1

\* the hour a listener works out from the hour clip and the period clip
HourHeard(hourClip, periodClip) ==
  IndexOf(hours, hourClip) + 12 * IndexOf(ampm, periodClip)

\* the hour clips played for a set of hours
HourClipsOf(hrs) == { ReadTable(hours, Hour12(x)) : x \in hrs }

\* C12: every announcement plays exactly one of am and pm, am for the hours
\* 0..11 and pm for 12..23; within each period the hours map one-to-one onto
\* the twelve hour clips h12, h01..h11, with the hours 0 and 12 both on h12;
\* so the hour clip and the period clip together determine the hour.
C12_HourAndPeriod ==
  /\ Cardinality(Range(hours)) = 12
  /\ HourClipsOf(0..11) = Range(hours) /\ HourClipsOf(12..23) = Range(hours)
  /\ ReadTable(hours, Hour12(0)) = "h12" /\ ReadTable(hours, Hour12(12)) = "h12"
  /\ \A x \in 0..23 : ReadTable(ampm, IsPm(x)) = (IF x <= 11 THEN "am" ELSE "pm")
  /\ PhraseRequested =>
       LET last == requested[Len(requested)]
       IN  /\ Cardinality({ i \in DOMAIN requested :
                              requested[i] \in Range(ampm) }) = 1
           /\ last = (IF t.hour \in 0..11 THEN "am" ELSE "pm")
           /\ requested[2] \in Range(hours)
           /\ HourHeard(requested[2], last) = t.hour

\* noon has been announced: h12 as at midnight, told apart by pm
C12_Witness ==
  /\ ActivationOver /\ t.hour = 12
  /\ requested[2] = "h12" /\ requested[Len(requested)] = "pm"

\* the number of clips of an announcement, from the minute alone
ClipCount(minute) == IF minute \in TwoClipMinutes THEN 5 ELSE 4

\* C13 as stated: one activation plays between 2 and 4 clips, the number
\* depending only on the minute.
C13_TwoToFourClips == PhraseRequested => Len(requested) \in 2..4

\* C13, amended: one activation plays 4 or 5 clips (annc, the hour, one or
\* two minute clips, the period): 5 when the minute is in 1..59, no multiple
\* of 10 and not in 11..19, and 4 otherwise, whatever the hour.
C13_FourOrFiveClips ==
  PhraseRequested =>
    /\ Len(requested) \in 4..5
    /\ Len(requested) = ClipCount(t.minute)

\* a five-clip announcement (21:38) is over
C13_Witness ==
  /\ ActivationOver /\ t = [hour |-> 21, minute |-> 38]
  /\ Len(requested) = 5

-----------------------------------------------------------------------------
(* Claims about the eye blink *)

\* C4: once setup() has enabled the Timer2 overflow interrupt it stays
\* enabled, and a tick can be taken in every state of the main flow, the
\* playback loop included; with fair ticks the eyes keep going from open to
\* closed and back, however long a playback lasts.
C4_BlinkNeverStarved ==
  /\ [](pc \notin {"setup", "halted"} => toie2 /\ ENABLED TickBlink)
  /\ [](toie2 => <>eyes)
  /\ [](toie2 => <>~eyes)

\* the eyes are closed while the hour clip is in the playback loop
C4_Witness ==
  /\ pc = "playing" /\ isplaying /\ site = "hour" /\ played = 1
  /\ toie2 /\ ~eyes /\ blinking = 5

\* what one step may do to the blink state once the interrupt is enabled
BlinkStep ==
  blinkVars' # blinkVars =>
    IF blinkCounter = 1
      THEN /\ blinking' = (blinking + 1) % 256
           /\ blinking' % 2 # blinking % 2
           /\ eyes' = (blinking' % 2 = 0)
           /\ eyes' => blinkCounter' \in 8..127
           /\ ~eyes' => blinkCounter' \in 5..15
      ELSE /\ blinkCounter' = blinkCounter - 1
           /\ UNCHANGED << blinking, eyes >>

\* C5: the phase changes only on the tick whose decrement brings the counter
\* to zero, and alternates there (across the wrap of 'blinking' from 255 to 0
\* too); Closed is entered with 5..15 ticks to stay and Open with 8..127, every
\* other tick takes one tick off and leaves the phase alone, and the counter
\* is never 0 between ticks.
C5_BlinkPhases ==
  /\ [](toie2 => blinkCounter \in 1..127)
  /\ [][toie2 => BlinkStep]_vars

\* 'blinking' has wrapped to 0 and the eyes are open for the longest time
C5_Witness ==
  toie2 /\ blinking = 0 /\ eyes /\ blinkCounter = 127

-----------------------------------------------------------------------------
(* Claims about the mouth LED *)

SetMin(S) == CHOOSE x \in S : \A y \in S : x <= y
SetMax(S) == CHOOSE x \in S : \A y \in S : x >= y

Clamp(v, a, b) == IF v < a THEN a ELSE IF v > b THEN b ELSE v

\* the step is an analogWrite() on the mouth LED that follows a full window
WindowWrite == writes' = writes + 1 /\ window # {}

\* C14: the brightness written once 256 samples have been observed (the
\* write is made by the iteration that follows them) is (high - low) * 4
\* limited to 0..255, high and low being the largest and smallest of those 256
\* samples: 0 when they are all equal, 255 when high - low >= 64.  In the
\* playback loop low <= high, low and high are the smallest and largest sample
\* of the window so far, and the duty written is always in 0..255.
C14_MouthBrightness ==
  /\ [](mouthDuty \in 0..255)
  /\ [](pc = "playing" =>
          /\ sLo <= sHi
          /\ window # {} => sLo = SetMin(window) /\ sHi = SetMax(window))
  /\ [][WindowWrite =>
          LET range == SetMax(window) - SetMin(window)
          IN  /\ played = WindowLen * writes
              /\ mouthOut'
              /\ mouthDuty' = Clamp(range * 4, 0, 255)
              /\ (range = 0 => mouthDuty' = 0)
              /\ (range >= 64 => mouthDuty' = 255)]_vars

\* the second write of a playback: the 256 samples were 63 apart, which gives
\* 252 and is not limited
C14_Witness ==
  /\ pc = "playing" /\ played = WindowLen + 1 /\ writes = 2
  /\ mouthOut /\ mouthDuty = 252

\* C15: every return of playfile() switches the mouth LED off, so
\* that whenever no clip is being played, the gap between two clips included,
\* the LED does not show the brightness written last.
C15_MouthOffAfterEveryClip ==
  pc \in {"call", "ret", "poll"} => ~(mouthOut /\ mouthDuty > 0)

-----------------------------------------------------------------------------
(* Claims about the storage failure at startup *)

\* the messages of setup() for the three storage failures
StorageFailures == StorageOutcomes \ {"ok"}

\* C16: when the card, the volume or the root directory cannot be opened in
\* setup(), the failure is printed and the program halts for good: the halted
\* state is never left, no clip (the boot clip included) is requested or
\* played and no activation begins, whatever the button does.
C16_StorageFailureHalts ==
  /\ []((Len(serial) = 1 /\ serial[1] \in StorageFailures) <=> pc = "halted")
  /\ [](pc = "halted" =>
          /\ requested = << >> /\ site = "none" /\ name = "none"
          /\ ~isplaying /\ played = 0 /\ ~mouthOut
          /\ ~pressFired /\ ~toie2)
  /\ [][pc = "halted" => pc' = "halted"]_vars

\* halted on a card without partition, the button held and the debounce
\* time long over
C16_Witness ==
  /\ pc = "halted" /\ serial = << "No partition" >>
  /\ button /\ now = << 0, 2 * DebounceMs >>

-----------------------------------------------------------------------------
(* Claims about the cadence of the mouth LED *)

\* the step is one iteration of the playback loop
Iteration == pc = "playing" /\ played' = played + 1

\* C17 as stated: the mouth LED is written once per 256 observed samples, the
\* k-th write when the (256 * k)-th sample is observed and never in between,
\* so none from the start of the playback to the 256th sample.
C17_WriteEvery256th == pc = "playing" => writes = played \div WindowLen

\* C17, amended: the mouth LED is written once per 256 observed samples, the
\* k-th write when the (256 * (k - 1) + 1)-th sample is observed: the first
\* sample of a playback causes a write (the counter starts at -1) and then
\* every 256th after it (the int8_t counter comes round); every other sample
\* only folds into low/high, and nothing else in a playback writes the LED.
C17_WriteEvery256thFromFirst ==
  /\ [](pc = "playing" => writes = (played + WindowLen - 1) \div WindowLen)
  /\ [][Iteration =>
          /\ (writes' = writes + 1) <=> (played % WindowLen = 0)
          /\ writes' # writes + 1 =>
               /\ UNCHANGED << mouthOut, mouthDuty, writes >>
               /\ sLo' <= sLo /\ sHi' >= sHi /\ s' \in {sLo', sHi'} \cup sLo..sHi
        ]_vars
  /\ [][(pc = "playing" /\ ~Iteration) =>
          UNCHANGED << mouthOut, mouthDuty, writes >>]_vars

\* the third write of a playback, made on the 513th sample
C17_Witness ==
  pc = "playing" /\ played = 2 * WindowLen + 1 /\ writes = 3 /\ counter = 0

-----------------------------------------------------------------------------
(* Claims about the debounce deadline *)

\* C18: an activation begins at a poll only if the button reads pressed and
\* at least 15 ms have passed since the latest poll that read it released;
\* the deadline is the time of that poll + 15 ms modulo 2^32, and the rule
\* holds when millis() comes round to 0 between that poll and the pressed one
\* (before the first poll that reads released there is no such deadline).
C18_DebounceAcrossWrap ==
  /\ [](sinceRel < 0 => debounceTime = << 0, 0 >>)
  /\ [](sinceRel \in 0..(SinceCap - 1) =>
          debounceTime = Add32(Sub32(now, << 0, sinceRel >>), DebounceMs))
  /\ [][ActivationStart =>
          /\ button
          /\ (sinceRel >= 0 => sinceRel >= DebounceMs)]_vars

\* an activation begins exactly 15 ms after a poll that read released, with
\* millis() come round to 0 in between
C18_Witness ==
  /\ pc = "call" /\ site = "annc" /\ requested = << >>
  /\ sinceRel = DebounceMs /\ debounceTime = now
  /\ now[1] = 0 /\ now[2] < DebounceMs

-----------------------------------------------------------------------------
(* Claims about the snapshot of the clock *)

\* C19: the clock is read once per activation, at its start; the snapshot
\* and the values taken from it change at no other step, and the clips
\* requested are the translation of the snapshot, also when the clock has
\* moved on to another time while the clips were being played.
C19_SingleSnapshot ==
  /\ [][ActivationStart => t' = rtc]_vars
  /\ [][<< t, h, hi, lo, pm >>' # << t, h, hi, lo, pm >> => ActivationStart]_vars
  /\ [](InActivation => IsPrefix(requested, Phrase(t)))
  /\ [](PhraseRequested => requested = Phrase(t))

\* the clock has moved from 13:05 to 12:17 during the announcement, whose
\* clips are those of 13:05
C19_Witness ==
  /\ pc = "ret" /\ site = "ampm"
  /\ t = [hour |-> 13, minute |-> 5] /\ rtc = [hour |-> 12, minute |-> 17]
  /\ requested = << "annc", "h01", "m0x", "m5", "pm" >>
  /\ requested # Phrase(rtc)

-----------------------------------------------------------------------------
(* Claims about the writers of the two LEDs *)

\* C20: once the Timer2 interrupt runs, a step that changes the blink state
\* (the eye LED, the ticks left, the phase) is a tick and changes nothing of
\* the main flow: not the mouth LED, the debounce deadline, the playback
\* state or anything else of setup(), loop() and playfile(); and after the
\* bring-up in setup() every step of the main flow, the playback of the boot
\* clip included, leaves the eye LED and the blink state as they are.
C20_DisjointWriters ==
  /\ [][(toie2 /\ blinkVars' # blinkVars) =>
          UNCHANGED << mainVars, now, button, rtc, toie2 >>]_vars
  /\ [][(pc # "setup" /\ mainVars' # mainVars) => UNCHANGED blinkVars]_vars

\* the mouth is driven in the playback of the period clip while the eyes are
\* closed for the third time
C20_Witness ==
  /\ pc = "playing" /\ site = "ampm" /\ mouthOut
  /\ toie2 /\ ~eyes /\ blinking = 5 /\ blinkCounter = 6

====
